---- MODULE Spec2Model ----
(***************************************************************************)
(* Model of uwsm's DbusInteractions (src/uwsm/dbus.py): the class-level    *)
(* cache dbus_objects, the constructor, the add_* accessors that populate  *)
(* the cache lazily, and the public operations written on top of them.     *)
(*                                                                         *)
(* The dbus library is the environment.  Every call into it (SystemBus,    *)
(* SessionBus, get_object, Interface, a remote method) is recorded as an   *)
(* event of the running operation; the environment decides which of the    *)
(* calls of an operation, if any, raises a DBusException, and what the     *)
(* remote methods reply.                                                   *)
(*                                                                         *)
(* Text that the code takes apart or builds (environment assignments) is a *)
(* sequence of one-character strings; names the code only passes on (bus   *)
(* levels, unit ids, object paths) are strings.                            *)
(***************************************************************************)
EXTENDS Integers, Sequences, FiniteSets, Bags, TLC

VARIABLES
    dbus_objects,   \* DbusInteractions.dbus_objects: level -> dict
    instances,      \* the DbusInteractions objects constructed so far: their dbus_level
    calls,          \* bag of the library calls made so far, by CallKey
    serial,         \* number of library objects created so far (object identity)
    budget,         \* number of operations the run may still start
    op,             \* the last operation run: name and arguments
    inp,            \* the data argument or remote reply of the last operation
    log,            \* the library calls of the last operation, in order
    exc,            \* the exception the last operation ended with, if any
    ret,            \* the value the last operation returned
    threads,        \* the operation each thread is running, and where it stands
    shared_instances \* the library's connections of the process: connect function -> object

vars == <<dbus_objects, instances, calls, serial, budget, op, inp, log, exc, ret, threads,
          shared_instances>>

----------------------------------------------------------------------------
(* Bounds of the model *)

MaxOps == 3
MaxInstances == 2
MaxStrLen == 4
MaxEnvLen == 2
MaxVars == 2
MaxValLen == 1
MaxRaceOps == 4

----------------------------------------------------------------------------
(* Names *)

Levels == {"system", "session"}

\* the values construction is tried with: the two levels and two that are neither
LevelInputs == Levels \cup {"user", "System"}

UnitIds == {"a.service", "b.service"}

\* object paths the manager's GetUnit may reply with
UnitPaths == {"/org/freedesktop/systemd1/unit/a", "/org/freedesktop/systemd1/unit/b"}

UnitProperties == {"ActiveState"}

JobModes == {"replace"}

SystemdService == "org.freedesktop.systemd1"
SystemdPath == "/org/freedesktop/systemd1"
ManagerIface == "org.freedesktop.systemd1.Manager"
PropertiesIface == "org.freedesktop.DBus.Properties"
UnitIface == "org.freedesktop.systemd1.Unit"
DBusService == "org.freedesktop.DBus"
DBusPath == "/org/freedesktop/DBus"
DBusIface == "org.freedesktop.DBus"

\* the characters of the texts: one that is no separator, and the separator
Chars == {"A", "="}

----------------------------------------------------------------------------
(* Python values *)

\* an empty dict
EmptyDict == [k \in {} |-> 0]

\* d[k] = v
SetItem(d, k, v) == [x \in (DOMAIN d) \cup {k} |-> IF x = k THEN v ELSE d[x]]

\* the value None
None == "None"

\* no exception pending
NoExc == [type |-> "none", at |-> 0, msg |-> ""]

\* a library object: a bus connection, a proxy object or an interface wrapper
Handle(id, type, parent, service, path, iface) ==
    [id |-> id, type |-> type, parent |-> parent,
     service |-> service, path |-> path, iface |-> iface]

\* a call into the dbus library made on behalf of the cache of one level: the
\* function or method, the object it is called on (0: none), its arguments,
\* and how it ended ("ok" or "raised")
Event(level, name, on, a, b, data) ==
    [op |-> name, level |-> level, on |-> on, a |-> a, b |-> b, data |-> data,
     out |-> "ok"]

\* the key a call is counted under
CallKey(e) == <<e.level, e.op, e.a, e.b, e.out>>

\* the state of an operation under way: the cache, the library calls made so
\* far, the position of the call that is going to fault (0: none), the
\* pending exception, the object count, the value of the last expression and
\* the connections the library holds for the process
Frame(objs, ser, flt, shared) ==
    [objs |-> objs, serial |-> ser, flt |-> flt, ev |-> << >>,
     exc |-> NoExc, val |-> None, shared |-> shared]

Raised(m) == m.exc.type # "none"


\* obj[key] on the cache of a level; a missing key raises KeyError
Subscript(m, level, key) ==
    IF Raised(m) THEN m
    ELSE IF key \in DOMAIN m.objs[level]
         THEN [m EXCEPT !.val = m.objs[level][key]]
         ELSE [m EXCEPT !.exc = [type |-> "KeyError", at |-> 0, msg |-> key]]

\* dbus_objects[level].setdefault(key, v): a value already stored is kept
Store_setdefault(m, level, key, v) ==
    IF Raised(m) THEN m
    ELSE IF key \in DOMAIN m.objs[level] THEN m
         ELSE [m EXCEPT !.objs[level] = SetItem(@, key, v)]

\* dbus_objects[level][key] = v
Store(m, level, key, v) ==
    IF Raised(m) THEN m
    ELSE [m EXCEPT !.objs[level] = SetItem(@, key, v)]

\* dbus_objects[level]["unit_properties"] = {unit_id: v}
StoreUnit_fresh(m, level, unit_id, v) ==
    IF Raised(m) THEN m
    ELSE [m EXCEPT !.objs[level] = SetItem(@, "unit_properties", SetItem(EmptyDict, unit_id, v))]

\* dbus_objects[level]["unit_properties"][unit_id] = v
StoreUnit(m, level, unit_id, v) ==
    IF Raised(m) THEN m
    ELSE IF "unit_properties" \in DOMAIN m.objs[level]
         THEN [m EXCEPT !.objs[level] =
                  SetItem(@, "unit_properties", SetItem(@["unit_properties"], unit_id, v))]
         ELSE [m EXCEPT !.exc = [type |-> "KeyError", at |-> 0, msg |-> "unit_properties"]]

----------------------------------------------------------------------------
(* The dbus library *)

\* the fault a library call may end with
DBusException(at) ==
    [type |-> "DBusException", at |-> at, msg |-> "org.freedesktop.DBus.Error"]

\* One call into the library.  The call is made (and logged) whatever its
\* outcome; the call at position m.flt of the operation raises, any other
\* returns v and, when it builds an object, adds one to the object count.
LibCall(m, e, v, made) ==
    IF Raised(m) THEN m
    ELSE IF Len(m.ev) + 1 = m.flt
         THEN [m EXCEPT !.ev = Append(@, [e EXCEPT !.out = "raised"]),
                        !.exc = DBusException(Len(m.ev) + 1)]
         ELSE [m EXCEPT !.ev = Append(@, e), !.val = v, !.serial = @ + made]

\* the library keeps the connection just made as the one of the process
Share(m, name) ==
    IF Raised(m) THEN m
    ELSE [m EXCEPT !.shared = SetItem(@, name, m.val)]

\* the connect function returns the connection the library keeps for the process
BusShared(m, level, name) ==
    IF Raised(m) THEN m
    ELSE [m EXCEPT !.ev = Append(@, Event(level, name, 0, "", "", << >>)),
                   !.val = m.shared[name]]

\* the connect function makes a connection, which may fault
BusConnect(m, level, name) ==
    LibCall(m, Event(level, name, 0, "", "", << >>),
            Handle(m.serial + 1, name, 0, "", "", ""), 1)

\* A connect function of the library (dbus.Bus.__new__ with private=False), run
\* by one thread without interruption: when the process holds a connection of
\* the kind the call returns that very object, makes none and cannot fault;
\* otherwise it connects, which may fault, and the connection made becomes the
\* one of the process.  The test, the connect and the keeping are three
\* statements of the library; the threads of SpecRace run them one at a time.
Bus(m, level, name) ==
    IF Raised(m) THEN m
    ELSE IF name \in DOMAIN m.shared
         THEN BusShared(m, level, name)
         ELSE Share(BusConnect(m, level, name), name)

\* dbus.SystemBus()
SystemBus(m, level) == Bus(m, level, "SystemBus")

\* dbus.SessionBus()
SessionBus(m, level) == Bus(m, level, "SessionBus")

\* bus.get_object(service, path)
get_object(m, level, bus, service, path) ==
    LibCall(m, Event(level, "get_object", bus.id, service, path, << >>),
            Handle(m.serial + 1, "ProxyObject", bus.id, service, path, ""), 1)

\* dbus.Interface(object, iface)
Interface(m, level, object, iface) ==
    LibCall(m, Event(level, "Interface", object.id, object.path, iface, << >>),
            Handle(m.serial + 1, "Interface", object.id, object.service, object.path, iface), 1)

\* interface.method(a, b, data): a remote method call that replies with reply
Remote(m, level, interface, method, a, b, data, reply) ==
    LibCall(m, Event(level, method, interface.id, a, b, data), reply, 0)

\* The same calls on the value the operation has just computed (m.val)

\* <bus just looked up>.get_object(service, path)
GetObjectOn(m, level, service, path) == get_object(m, level, m.val, service, path)

\* dbus.Interface(<object just looked up or created>, iface)
InterfaceOf(m, level, iface) == Interface(m, level, m.val, iface)

\* <interface just looked up>.method(a, b, data)
RemoteOn(m, level, method, a, b, data, reply) ==
    Remote(m, level, m.val, method, a, b, data, reply)

\* the store done also when the creating call has raised: the slot is filled
\* with what was at hand
StoreVal_after_fault(m, level, key) ==
    [m EXCEPT !.objs[level] = SetItem(@, key, m.val)]

\* dbus_objects[level][key] = <value just created>
StoreVal(m, level, key) == Store(m, level, key, m.val)

\* dbus_objects[level]["unit_properties"][unit_id] = <value just created>
StoreUnitVal(m, level, unit_id) == StoreUnit(m, level, unit_id, m.val)

----------------------------------------------------------------------------
(* DbusInteractions: constructor and accessors *)

\* __init__ connecting whether or not a connection is cached
DbusInteractions_reconnect(m, dbus_level) ==
    IF dbus_level \in {"system", "session"}
    THEN IF dbus_level = "system"
         THEN StoreVal(SystemBus(m, dbus_level), dbus_level, "bus")
         ELSE StoreVal(SessionBus(m, dbus_level), dbus_level, "bus")
    ELSE [m EXCEPT !.exc = [type |-> "ValueError", at |-> 0, msg |-> dbus_level]]

\* __init__ without the check of dbus_level: the lookup in dbus_objects fails
DbusInteractions_unchecked(m, dbus_level) ==
    IF dbus_level \in DOMAIN m.objs
    THEN IF "bus" \notin DOMAIN m.objs[dbus_level]
         THEN IF dbus_level = "system"
              THEN StoreVal(SystemBus(m, dbus_level), dbus_level, "bus")
              ELSE StoreVal(SessionBus(m, dbus_level), dbus_level, "bus")
         ELSE m
    ELSE [m EXCEPT !.exc = [type |-> "KeyError", at |-> 0, msg |-> dbus_level]]

\* __init__ giving the object a cache of its own for its level: it starts
\* empty, and the object connects for itself
DbusInteractions_own_cache(m, dbus_level) ==
    IF dbus_level \in {"system", "session"}
    THEN IF dbus_level = "system"
         THEN StoreVal(SystemBus([m EXCEPT !.objs[dbus_level] = EmptyDict], dbus_level),
                       dbus_level, "bus")
         ELSE StoreVal(SessionBus([m EXCEPT !.objs[dbus_level] = EmptyDict], dbus_level),
                       dbus_level, "bus")
    ELSE [m EXCEPT !.exc = [type |-> "ValueError", at |-> 0, msg |-> dbus_level]]

\* __init__(self, dbus_level)
DbusInteractions(m, dbus_level) ==
    IF dbus_level \in {"system", "session"}
    THEN IF "bus" \notin DOMAIN m.objs[dbus_level]
         THEN IF dbus_level = "system"
              THEN StoreVal(SystemBus(m, dbus_level), dbus_level, "bus")
              ELSE StoreVal(SessionBus(m, dbus_level), dbus_level, "bus")
         ELSE m
    ELSE [m EXCEPT !.exc = [type |-> "ValueError", at |-> 0, msg |-> dbus_level]]

\* add_systemd without the membership test
add_systemd_always(m, level) ==
    IF Raised(m) THEN m
    ELSE StoreVal(GetObjectOn(Subscript(m, level, "bus"), level,
                              SystemdService, SystemdPath),
                  level, "systemd")

\* add_systemd taking the connection of the session level, whatever the level
add_systemd_session_bus(m, level) ==
    IF Raised(m) THEN m
    ELSE IF "systemd" \notin DOMAIN m.objs[level]
         THEN StoreVal(GetObjectOn(Subscript(m, "session", "bus"), level,
                                   SystemdService, SystemdPath),
                       level, "systemd")
         ELSE m

add_systemd(m, level) ==
    IF Raised(m) THEN m
    ELSE IF "systemd" \notin DOMAIN m.objs[level]
         THEN StoreVal(GetObjectOn(Subscript(m, level, "bus"), level,
                                   SystemdService, SystemdPath),
                       level, "systemd")
         ELSE m

\* add_systemd_manager once add_systemd has run
add_systemd_manager_interface(m, level) ==
    IF Raised(m) THEN m
    ELSE IF "systemd_manager" \notin DOMAIN m.objs[level]
         THEN StoreVal(InterfaceOf(Subscript(m, level, "systemd"), level, ManagerIface),
                       level, "systemd_manager")
         ELSE m

add_systemd_manager(m, level) ==
    add_systemd_manager_interface(add_systemd(m, level), level)

\* add_systemd_properties once add_systemd has run
add_systemd_properties_interface(m, level) ==
    IF Raised(m) THEN m
    ELSE IF "systemd_properties" \notin DOMAIN m.objs[level]
         THEN StoreVal(InterfaceOf(Subscript(m, level, "systemd"), level, PropertiesIface),
                       level, "systemd_properties")
         ELSE m

add_systemd_properties(m, level) ==
    add_systemd_properties_interface(add_systemd(m, level), level)

\* get_object(service, <path just replied>) on the bus looked up before
GetUnitObject(m, level, bus) == get_object(m, level, bus, SystemdService, m.val)

\* unit_path = bus.get_object(service, manager.GetUnit(unit_id)), with the bus
\* looked up in bus; unit_path is the object path the manager replies with
unit_path_object(bus, level, unit_id, unit_path) ==
    GetUnitObject(RemoteOn(Subscript(bus, level, "systemd_manager"), level,
                           "GetUnit", unit_id, "", << >>, unit_path),
                  level, bus.val)

\* if "unit_properties" not in ...: ... = {}
unit_properties_dict(m, level) ==
    IF Raised(m) THEN m
    ELSE IF "unit_properties" \notin DOMAIN m.objs[level]
         THEN Store(m, level, "unit_properties", EmptyDict)
         ELSE m

\* the wrapper stored without the membership test
unit_properties_interface_always(m, level, unit_id) ==
    IF Raised(m) THEN m
    ELSE StoreUnitVal(InterfaceOf(m, level, PropertiesIface), level, unit_id)

\* if unit_id not in ...["unit_properties"]: ...[unit_id] = dbus.Interface(unit_path, ...)
unit_properties_interface(m, level, unit_id) ==
    IF Raised(m) THEN m
    ELSE IF unit_id \notin DOMAIN m.objs[level]["unit_properties"]
         THEN StoreUnitVal(InterfaceOf(m, level, PropertiesIface), level, unit_id)
         ELSE m

\* add_systemd_unit_properties calling add_systemd where it should call
\* add_systemd_manager
add_systemd_unit_properties_no_manager(m, level, unit_id, unit_path) ==
    unit_properties_interface(
        unit_properties_dict(
            unit_path_object(Subscript(add_systemd(m, level), level, "bus"),
                             level, unit_id, unit_path),
            level),
        level, unit_id)

\* add_systemd_unit_properties creating the unit_properties dict first, before
\* it ensures the manager wrapper
add_systemd_unit_properties_dict_first(m, level, unit_id, unit_path) ==
    unit_properties_interface(
        unit_path_object(
            Subscript(add_systemd_manager(unit_properties_dict(m, level), level),
                      level, "bus"),
            level, unit_id, unit_path),
        level, unit_id)

add_systemd_unit_properties(m, level, unit_id, unit_path) ==
    unit_properties_interface(
        unit_properties_dict(
            unit_path_object(Subscript(add_systemd_manager(m, level), level, "bus"),
                             level, unit_id, unit_path),
            level),
        level, unit_id)

add_dbus(m, level) ==
    IF Raised(m) THEN m
    ELSE IF "dbus" \notin DOMAIN m.objs[level]
         THEN StoreVal(GetObjectOn(Subscript(m, level, "bus"), level, DBusService, DBusPath),
                       level, "dbus")
         ELSE m

\* add_dbus_interface once add_dbus has run
add_dbus_interface_interface(m, level) ==
    IF Raised(m) THEN m
    ELSE IF "dbus_interface" \notin DOMAIN m.objs[level]
         THEN StoreVal(InterfaceOf(Subscript(m, level, "dbus"), level, DBusIface),
                       level, "dbus_interface")
         ELSE m

add_dbus_interface(m, level) ==
    add_dbus_interface_interface(add_dbus(m, level), level)

----------------------------------------------------------------------------
(* Text *)

\* the texts of at most n characters
Text(n) == UNION {[1..k -> Chars] : k \in 0..n}

\* the position of the last c in s, 0 when there is none (rsplit)
Find_last(s, c) ==
    IF \E i \in 1..Len(s) : s[i] = c
    THEN CHOOSE i \in 1..Len(s) : s[i] = c /\ \A j \in (i + 1)..Len(s) : s[j] # c
    ELSE 0

\* the position of the first c in s, 0 when there is none
Find(s, c) ==
    IF \E i \in 1..Len(s) : s[i] = c
    THEN CHOOSE i \in 1..Len(s) : s[i] = c /\ \A j \in 1..(i - 1) : s[j] # c
    ELSE 0

\* s.split(sep, maxsplit=1) with the separator found at position i
SplitAt(s, i) ==
    IF i = 0 THEN <<s>>
    ELSE <<SubSeq(s, 1, i - 1), SubSeq(s, i + 1, Len(s))>>

\* s.split(sep, maxsplit=1) for a one-character sep
split(s, sep) == SplitAt(s, Find(s, sep))

\* f"{var}={value}"
Assignment(var, value) == var \o <<"=">> \o value

\* the assignments in reverse order of the items
Assignments_reversed(items) ==
    [i \in 1..Len(items) |->
        Assignment(items[Len(items) + 1 - i][1], items[Len(items) + 1 - i][2])]

\* [f"{var}={value}" for var, value in vars_dict.items()]; a dict is given by
\* its items in iteration order
Assignments(items) == [i \in 1..Len(items) |-> Assignment(items[i][1], items[i][2])]

----------------------------------------------------------------------------
(* DbusInteractions: public operations *)

\* return v
Return(m, v) == IF Raised(m) THEN m ELSE [m EXCEPT !.val = v]

\* dbus_objects[level]["unit_properties"][unit_id]
SubscriptUnit(m, level, unit_id) ==
    IF Raised(m) THEN m
    ELSE IF "unit_properties" \notin DOMAIN m.objs[level]
         THEN [m EXCEPT !.exc = [type |-> "KeyError", at |-> 0, msg |-> "unit_properties"]]
         ELSE IF unit_id \notin DOMAIN m.objs[level]["unit_properties"]
              THEN [m EXCEPT !.exc = [type |-> "KeyError", at |-> 0, msg |-> unit_id]]
              ELSE [m EXCEPT !.val = m.objs[level]["unit_properties"][unit_id]]

\* an exception of the accessor is dropped
Swallow(m) == [m EXCEPT !.exc = NoExc]

\* get_unit_property going on after a fault of add_systemd_unit_properties
get_unit_property_swallow(m, level, unit_id, unit_property, unit_path, reply) ==
    RemoteOn(SubscriptUnit(Swallow(add_systemd_unit_properties(m, level, unit_id, unit_path)),
                           level, unit_id),
             level, "Get", UnitIface, unit_property, << >>, reply)

\* get_unit_property looking into the cache first: for a unit id with a
\* cached wrapper the accessor is not called
get_unit_property_cached(m, level, unit_id, unit_property, unit_path, reply) ==
    IF unit_id \in DOMAIN (IF "unit_properties" \in DOMAIN m.objs[level]
                           THEN m.objs[level]["unit_properties"] ELSE EmptyDict)
    THEN RemoteOn(SubscriptUnit(m, level, unit_id),
                  level, "Get", UnitIface, unit_property, << >>, reply)
    ELSE RemoteOn(SubscriptUnit(add_systemd_unit_properties(m, level, unit_id, unit_path),
                                level, unit_id),
                  level, "Get", UnitIface, unit_property, << >>, reply)

get_unit_property(m, level, unit_id, unit_property, unit_path, reply) ==
    RemoteOn(SubscriptUnit(add_systemd_unit_properties(m, level, unit_id, unit_path),
                           level, unit_id),
             level, "Get", UnitIface, unit_property, << >>, reply)

reload_systemd(m, level, reply) ==
    RemoteOn(Subscript(add_systemd_manager(m, level), level, "systemd_manager"),
             level, "Reload", "", "", << >>, reply)

list_systemd_jobs(m, level, reply) ==
    RemoteOn(Subscript(add_systemd_manager(m, level), level, "systemd_manager"),
             level, "ListJobs", "", "", << >>, reply)

set_dbus_vars(m, level, vars_dict) ==
    Return(RemoteOn(Subscript(add_dbus_interface(m, level), level, "dbus_interface"),
                    level, "UpdateActivationEnvironment", "", "", vars_dict, None),
           None)

set_systemd_vars(m, level, vars_dict) ==
    Return(RemoteOn(Subscript(add_systemd_manager(m, level), level, "systemd_manager"),
                    level, "SetEnvironment", "", "", Assignments(vars_dict), None),
           None)

unset_systemd_vars(m, level, vars_list) ==
    Return(RemoteOn(Subscript(add_systemd_manager(m, level), level, "systemd_manager"),
                    level, "UnsetEnvironment", "", "", vars_list, None),
           None)

\* an entry that does not split in two is skipped
Unpack_skip(m, parts, env) ==
    IF Len(parts) # 2
    THEN [m EXCEPT !.val = env]
    ELSE [m EXCEPT !.val = SetItem(env, parts[1], parts[2])]

\* var, value = parts; env.update({var: value})
Unpack(m, parts, env) ==
    IF Len(parts) # 2
    THEN [m EXCEPT !.exc = [type |-> "ValueError", at |-> 0, msg |-> "unpack"]]
    ELSE [m EXCEPT !.val = SetItem(env, parts[1], parts[2])]

\* the loop of get_systemd_vars over the assignments not yet read; m.val is env
RECURSIVE ReadAssignments(_, _)
ReadAssignments(m, assignments) ==
    IF Raised(m) THEN m
    ELSE IF assignments = << >> THEN m
    ELSE ReadAssignments(Unpack(m, split(Head(assignments), "="), m.val),
                         Tail(assignments))

\* env = {}; for assignment in assignments: ...; return env
ReadEnvironment(m) ==
    IF Raised(m) THEN m
    ELSE ReadAssignments([m EXCEPT !.val = EmptyDict], m.val)

\* get_systemd_vars ensuring the manager wrapper where it reads the
\* properties wrapper
get_systemd_vars_manager(m, level, reply) ==
    ReadEnvironment(
        RemoteOn(Subscript(add_systemd_manager(m, level), level, "systemd_properties"),
                 level, "Get", ManagerIface, "Environment", << >>, reply))

\* reply is the Environment property the manager replies with
get_systemd_vars(m, level, reply) ==
    ReadEnvironment(
        RemoteOn(Subscript(add_systemd_properties(m, level), level, "systemd_properties"),
                 level, "Get", ManagerIface, "Environment", << >>, reply))

list_units_by_patterns(m, level, states, patterns, reply) ==
    RemoteOn(Subscript(add_systemd_manager(m, level), level, "systemd_manager"),
             level, "ListUnitsByPatterns", "", "", <<states, patterns>>, reply)

stop_unit(m, level, unit, job_mode, reply) ==
    RemoteOn(Subscript(add_systemd_manager(m, level), level, "systemd_manager"),
             level, "StopUnit", unit, job_mode, << >>, reply)

\* stop_unit whose signature has the default job mode "replace"
stop_unit_default_replace(m, level, unit, reply) ==
    stop_unit(m, level, unit, "replace", reply)

\* stop_unit called without a job mode: the default of the signature applies
stop_unit_default(m, level, unit, reply) == stop_unit(m, level, unit, "fail", reply)

----------------------------------------------------------------------------
(* Inputs *)

\* lists of at most n entries of S
Lists(S, n) == UNION {[1..k -> S] : k \in 0..n}

\* Environment replies of the manager: any texts, with or without "="
Environments == Lists(Text(MaxStrLen), MaxEnvLen)

\* a few Environment replies: empty, well-formed, a value holding "=", a
\* repeated name, an entry without "="
SomeEnvironments ==
    { << >>,
      << <<"A", "=", "A">>, <<"A", "A", "=", "=", "A">> >>,
      << <<"A", "=", "A">>, <<"A", "=">> >>,
      << <<"A", "=", "A">>, <<"A">> >> }

\* names of environment variables
VarNames == {<<"A">>, <<"B">>, <<"A", "B">>}

\* dicts of at most n variables with values of at most k characters, each
\* given by its items in iteration order
VarDicts(n, k) ==
    {d \in Lists(VarNames \X Text(k), n) :
        \A i, j \in 1..Len(d) : i # j => d[i][1] # d[j][1]}

SomeVarDicts ==
    { << >>,
      << <<<<"B">>, <<"A">>>>, <<<<"A">>, <<"=">>>> >> }

\* lists of variable names
SomeVarLists == { << >>, << <<"A">>, <<"B">> >> }

\* what the manager replies to Reload, ListJobs, a property Get, ...
Replies == {"reply"}

\* what the manager replies to StopUnit: the object path of the job
Jobs == {"/org/freedesktop/systemd1/job/1", "/org/freedesktop/systemd1/job/2"}

----------------------------------------------------------------------------
(* The state machine *)

\* the accessors without arguments
Accessors ==
    {"add_systemd", "add_systemd_manager", "add_systemd_properties",
     "add_dbus", "add_dbus_interface"}

\* the threads of the process
Threads == {"t1", "t2"}

\* a thread that runs no operation: pc is the statement it stands before, self
\* its DbusInteractions object (0: none yet), chain the slots the operation
\* has still to ensure, val the object it has looked up or created last, ev
\* its calls
IdleThread ==
    [pc |-> "idle", name |-> "", level |-> "", self |-> 0, chain |-> << >>,
     val |-> None, ev |-> << >>]

\* the bag of the calls of one operation
CallBag(ev) ==
    LET keys == {CallKey(ev[i]) : i \in 1..Len(ev)}
    IN  [k \in keys |-> Cardinality({i \in 1..Len(ev) : CallKey(ev[i]) = k})]

\* the operation is over: its effects on the cache stay, its calls are counted
Commit(name, self, level, unit, arg, data, m) ==
    /\ budget' = budget - 1
    /\ dbus_objects' = m.objs
    /\ serial' = m.serial
    /\ calls' = calls (+) CallBag(m.ev)
    /\ op' = [name |-> name, self |-> self, level |-> level, unit |-> unit, arg |-> arg]
    /\ inp' = data
    /\ log' = m.ev
    /\ exc' = m.exc
    /\ ret' = IF Raised(m) THEN None ELSE m.val
    /\ threads' = threads
    /\ shared_instances' = m.shared

Init ==
    /\ dbus_objects = [level \in {"system", "session"} |-> EmptyDict]
    /\ instances = << >>
    /\ calls = EmptyBag
    /\ serial = 0
    /\ budget = MaxOps
    /\ op = [name |-> "", self |-> 0, level |-> "", unit |-> "", arg |-> ""]
    /\ inp = << >>
    /\ log = << >>
    /\ exc = NoExc
    /\ ret = None
    /\ threads = [t \in Threads |-> IdleThread]
    /\ shared_instances = EmptyDict

\* DbusInteractions(dbus_level)
Construct ==
    /\ budget > 0
    /\ \E dbus_level \in LevelInputs, flt \in 0..1 :
        LET m == DbusInteractions(Frame(dbus_objects, serial, flt, shared_instances), dbus_level)
        IN  /\ dbus_level \in Levels => Len(instances) < MaxInstances
            /\ instances' = IF Raised(m) THEN instances ELSE Append(instances, dbus_level)
            /\ Commit("__init__", 0, dbus_level, "", "", << >>, Return(m, None))

AddSystemd ==
    /\ budget > 0
    /\ \E self \in DOMAIN instances, flt \in 0..1 :
        LET level == instances[self]
            m == add_systemd(Frame(dbus_objects, serial, flt, shared_instances), level)
        IN  /\ Commit("add_systemd", self, level, "", "", << >>, Return(m, None))
            /\ UNCHANGED instances

AddSystemdManager ==
    /\ budget > 0
    /\ \E self \in DOMAIN instances, flt \in 0..2 :
        LET level == instances[self]
            m == add_systemd_manager(Frame(dbus_objects, serial, flt, shared_instances), level)
        IN  /\ Commit("add_systemd_manager", self, level, "", "", << >>, Return(m, None))
            /\ UNCHANGED instances

AddSystemdProperties ==
    /\ budget > 0
    /\ \E self \in DOMAIN instances, flt \in 0..2 :
        LET level == instances[self]
            m == add_systemd_properties(Frame(dbus_objects, serial, flt, shared_instances), level)
        IN  /\ Commit("add_systemd_properties", self, level, "", "", << >>, Return(m, None))
            /\ UNCHANGED instances

AddSystemdUnitProperties ==
    /\ budget > 0
    /\ \E self \in DOMAIN instances, unit_id \in UnitIds, unit_path \in UnitPaths, flt \in 0..5 :
        LET level == instances[self]
            m == add_systemd_unit_properties(Frame(dbus_objects, serial, flt, shared_instances),
                                             level, unit_id, unit_path)
        IN  /\ Commit("add_systemd_unit_properties", self, level, unit_id, "", unit_path,
                      Return(m, None))
            /\ UNCHANGED instances

AddDbus ==
    /\ budget > 0
    /\ \E self \in DOMAIN instances, flt \in 0..1 :
        LET level == instances[self]
            m == add_dbus(Frame(dbus_objects, serial, flt, shared_instances), level)
        IN  /\ Commit("add_dbus", self, level, "", "", << >>, Return(m, None))
            /\ UNCHANGED instances

AddDbusInterface ==
    /\ budget > 0
    /\ \E self \in DOMAIN instances, flt \in 0..2 :
        LET level == instances[self]
            m == add_dbus_interface(Frame(dbus_objects, serial, flt, shared_instances), level)
        IN  /\ Commit("add_dbus_interface", self, level, "", "", << >>, Return(m, None))
            /\ UNCHANGED instances

GetUnitProperty ==
    /\ budget > 0
    /\ \E self \in DOMAIN instances, unit_id \in UnitIds, unit_property \in UnitProperties,
          unit_path \in UnitPaths, reply \in Replies, flt \in 0..6 :
        LET level == instances[self]
            m == get_unit_property(Frame(dbus_objects, serial, flt, shared_instances),
                                   level, unit_id, unit_property, unit_path, reply)
        IN  /\ Commit("get_unit_property", self, level, unit_id, unit_property, unit_path, m)
            /\ UNCHANGED instances

ReloadSystemd ==
    /\ budget > 0
    /\ \E self \in DOMAIN instances, reply \in Replies, flt \in 0..3 :
        LET level == instances[self]
            m == reload_systemd(Frame(dbus_objects, serial, flt, shared_instances), level, reply)
        IN  /\ Commit("reload_systemd", self, level, "", "", reply, m)
            /\ UNCHANGED instances

ListSystemdJobs ==
    /\ budget > 0
    /\ \E self \in DOMAIN instances, reply \in Replies, flt \in 0..3 :
        LET level == instances[self]
            m == list_systemd_jobs(Frame(dbus_objects, serial, flt, shared_instances), level, reply)
        IN  /\ Commit("list_systemd_jobs", self, level, "", "", reply, m)
            /\ UNCHANGED instances

SetDbusVarsOf(dicts) ==
    /\ budget > 0
    /\ \E self \in DOMAIN instances, vars_dict \in dicts, flt \in 0..3 :
        LET level == instances[self]
            m == set_dbus_vars(Frame(dbus_objects, serial, flt, shared_instances), level, vars_dict)
        IN  /\ Commit("set_dbus_vars", self, level, "", "", vars_dict, m)
            /\ UNCHANGED instances

SetSystemdVarsOf(dicts) ==
    /\ budget > 0
    /\ \E self \in DOMAIN instances, vars_dict \in dicts, flt \in 0..3 :
        LET level == instances[self]
            m == set_systemd_vars(Frame(dbus_objects, serial, flt, shared_instances), level, vars_dict)
        IN  /\ Commit("set_systemd_vars", self, level, "", "", vars_dict, m)
            /\ UNCHANGED instances

UnsetSystemdVars ==
    /\ budget > 0
    /\ \E self \in DOMAIN instances, vars_list \in SomeVarLists, flt \in 0..3 :
        LET level == instances[self]
            m == unset_systemd_vars(Frame(dbus_objects, serial, flt, shared_instances), level, vars_list)
        IN  /\ Commit("unset_systemd_vars", self, level, "", "", vars_list, m)
            /\ UNCHANGED instances

GetSystemdVarsOf(replies) ==
    /\ budget > 0
    /\ \E self \in DOMAIN instances, reply \in replies, flt \in 0..3 :
        LET level == instances[self]
            m == get_systemd_vars(Frame(dbus_objects, serial, flt, shared_instances), level, reply)
        IN  /\ Commit("get_systemd_vars", self, level, "", "", reply, m)
            /\ UNCHANGED instances

ListUnitsByPatterns ==
    /\ budget > 0
    /\ \E self \in DOMAIN instances, reply \in Replies, flt \in 0..3 :
        LET level == instances[self]
            m == list_units_by_patterns(Frame(dbus_objects, serial, flt, shared_instances), level,
                                        <<"active">>, <<"*.service">>, reply)
        IN  /\ Commit("list_units_by_patterns", self, level, "", "", reply, m)
            /\ UNCHANGED instances

StopUnit ==
    /\ budget > 0
    /\ \E self \in DOMAIN instances, unit \in UnitIds, job_mode \in JobModes \cup {None},
          reply \in Jobs, flt \in 0..3 :
        LET level == instances[self]
            m == IF job_mode = None
                 THEN stop_unit_default(Frame(dbus_objects, serial, flt, shared_instances), level, unit, reply)
                 ELSE stop_unit(Frame(dbus_objects, serial, flt, shared_instances), level, unit, job_mode, reply)
        IN  /\ Commit("stop_unit", self, level, unit, job_mode, reply, m)
            /\ UNCHANGED instances

SetDbusVars == SetDbusVarsOf(SomeVarDicts)
SetSystemdVars == SetSystemdVarsOf(SomeVarDicts)
GetSystemdVars == GetSystemdVarsOf(SomeEnvironments)

Next ==
    \/ Construct
    \/ AddSystemd
    \/ AddSystemdManager
    \/ AddSystemdProperties
    \/ AddSystemdUnitProperties
    \/ AddDbus
    \/ AddDbusInterface
    \/ GetUnitProperty
    \/ ReloadSystemd
    \/ ListSystemdJobs
    \/ SetDbusVars
    \/ SetSystemdVars
    \/ UnsetSystemdVars
    \/ GetSystemdVars
    \/ ListUnitsByPatterns
    \/ StopUnit

Spec == Init /\ [][Next]_vars

----------------------------------------------------------------------------
(* The environment operations on any input: one instance of the session    *)
(* level has been constructed, and one operation is run                    *)

Constructed == DbusInteractions(Frame([level \in {"system", "session"} |-> EmptyDict], 0, 0,
                                      EmptyDict),
                                "session")

InitEnv ==
    /\ dbus_objects = Constructed.objs
    /\ instances = <<"session">>
    /\ calls = CallBag(Constructed.ev)
    /\ serial = Constructed.serial
    /\ budget = 1
    /\ op = [name |-> "__init__", self |-> 0, level |-> "session", unit |-> "", arg |-> ""]
    /\ inp = << >>
    /\ log = Constructed.ev
    /\ exc = NoExc
    /\ ret = None
    /\ threads = [t \in Threads |-> IdleThread]
    /\ shared_instances = Constructed.shared

GetSystemdVarsAny == GetSystemdVarsOf(Environments)
SetSystemdVarsAny == SetSystemdVarsOf(VarDicts(MaxVars, MaxValLen))
SetDbusVarsAny == SetDbusVarsOf(VarDicts(MaxVars, MaxValLen))

NextEnv ==
    \/ GetSystemdVarsAny
    \/ SetSystemdVarsAny
    \/ SetDbusVarsAny

SpecEnv == InitEnv /\ [][NextEnv]_vars

----------------------------------------------------------------------------
(* Two objects: a first object has been constructed and has filled slots of *)
(* its level, then a second object has been constructed, for the same level *)
(* or for the other; no call has raised so far.  One operation follows.      *)

\* the operations the first object may have run
FirstCalls ==
    {"add_systemd_manager", "add_systemd_properties", "add_dbus_interface",
     "add_systemd_unit_properties", "reload_systemd", "set_dbus_vars"}

\* the operation name run on the frame m
Call(name, m, level) ==
    CASE name = "add_systemd_manager" -> add_systemd_manager(m, level)
      [] name = "add_systemd_properties" -> add_systemd_properties(m, level)
      [] name = "add_dbus_interface" -> add_dbus_interface(m, level)
      [] name = "add_systemd_unit_properties" ->
           add_systemd_unit_properties(m, level, "a.service",
                                       "/org/freedesktop/systemd1/unit/a")
      [] name = "reload_systemd" -> reload_systemd(m, level, "reply")
      [] name = "set_dbus_vars" -> set_dbus_vars(m, level, << >>)

\* the frame of the next call after the call that ended in m: the cache and
\* the calls so far are kept
After(m) == [m EXCEPT !.val = None]

\* first = DbusInteractions(l1); first.name(); second = DbusInteractions(l2)
TwoObjects(l1, name, l2) ==
    DbusInteractions(
        After(Call(name,
                   After(DbusInteractions(Frame([level \in {"system", "session"} |-> EmptyDict],
                                                0, 0, EmptyDict),
                                          l1)),
                   l1)),
        l2)

InitTwo ==
    \E l1 \in Levels, name \in FirstCalls, l2 \in Levels :
       /\ dbus_objects = TwoObjects(l1, name, l2).objs
       /\ instances = <<l1, l2>>
       /\ calls = CallBag(TwoObjects(l1, name, l2).ev)
       /\ serial = TwoObjects(l1, name, l2).serial
       /\ budget = 1
       /\ op = [name |-> "__init__", self |-> 0, level |-> l2, unit |-> "", arg |-> ""]
       /\ inp = << >>
       /\ log = IF l1 = l2 THEN << >>
                ELSE <<TwoObjects(l1, name, l2).ev[Len(TwoObjects(l1, name, l2).ev)]>>
       /\ exc = NoExc
       /\ ret = None
       /\ threads = [t \in Threads |-> IdleThread]
       /\ shared_instances = TwoObjects(l1, name, l2).shared

SpecTwo == InitTwo /\ [][Next]_vars

----------------------------------------------------------------------------
(* Two threads: the constructor and accessors without arguments, run        *)
(* statement by statement.  A thread may be pre-empted between the          *)
(* membership test of a slot, the call that creates its object and the     *)
(* store into the cache; each of the three is one step, and so is the read  *)
(* of the cached object the create call is made on, which comes before the  *)
(* call.  Inside a connect                                                   *)
(* function of the library a thread may be pre-empted as well: between its  *)
(* test for a connection of the process, the connect, and the keeping of    *)
(* the connection made.                                                     *)

\* the operations the threads run: the constructor, an accessor of one slot
\* for each of the two proxy objects, and an accessor of a chain of two slots
RaceCalls == {"__init__", "add_systemd", "add_systemd_manager", "add_dbus"}

\* the slots an operation ensures, in the order it ensures them
ChainOf(name) ==
    CASE name = "__init__" -> <<"bus">>
      [] name = "add_systemd" -> <<"systemd">>
      [] name = "add_systemd_manager" -> <<"systemd", "systemd_manager">>
      [] name = "add_systemd_properties" -> <<"systemd", "systemd_properties">>
      [] name = "add_dbus" -> <<"dbus">>
      [] name = "add_dbus_interface" -> <<"dbus", "dbus_interface">>

\* the slot of the object the create call of a slot is made on
Receiver(slot) ==
    CASE slot = "systemd" -> "bus"
      [] slot = "systemd_manager" -> "systemd"
      [] slot = "systemd_properties" -> "systemd"
      [] slot = "dbus" -> "bus"
      [] slot = "dbus_interface" -> "dbus"

\* the call of the right-hand side of the assignment that fills a slot, made
\* on the object looked up before (m.val)
CreateOn(m, level, slot) ==
    CASE slot = "systemd" -> GetObjectOn(m, level, SystemdService, SystemdPath)
      [] slot = "systemd_manager" -> InterfaceOf(m, level, ManagerIface)
      [] slot = "systemd_properties" -> InterfaceOf(m, level, PropertiesIface)
      [] slot = "dbus" -> GetObjectOn(m, level, DBusService, DBusPath)
      [] slot = "dbus_interface" -> InterfaceOf(m, level, DBusIface)

\* the frame a thread makes its next step in: the shared cache as it is now,
\* the calls of the thread's operation so far, the object the thread holds
ThreadFrame(th, fault) ==
    [Frame(dbus_objects, serial, IF fault THEN Len(th.ev) + 1 ELSE 0, shared_instances)
        EXCEPT !.ev = th.ev, !.val = th.val]

\* the thread goes on with the slots left to ensure, or its operation returns
\* (a construction that returns has made an object)
Proceed(t, th, chain, e) ==
    IF chain # << >> /\ e = NoExc
    THEN /\ threads' = [threads EXCEPT ![t] = [th EXCEPT !.pc = "test", !.chain = chain]]
         /\ UNCHANGED <<instances, op, inp, log, exc, ret>>
    ELSE /\ instances' = IF th.name = "__init__" /\ e = NoExc
                         THEN Append(instances, th.level) ELSE instances
         /\ threads' = [threads EXCEPT ![t] =
                           [th EXCEPT !.pc = "idle", !.chain = << >>,
                                      !.self = IF th.name = "__init__" /\ e = NoExc
                                               THEN Len(instances) + 1 ELSE @]]
         /\ op' = [name |-> th.name, self |-> th.self, level |-> th.level,
                   unit |-> "", arg |-> t]
         /\ inp' = << >>
         /\ log' = th.ev
         /\ exc' = e
         /\ ret' = None

InitRace ==
    /\ dbus_objects = [level \in {"system", "session"} |-> EmptyDict]
    /\ instances = << >>
    /\ calls = EmptyBag
    /\ serial = 0
    /\ budget = MaxRaceOps
    /\ op = [name |-> "", self |-> 0, level |-> "", unit |-> "", arg |-> ""]
    /\ inp = << >>
    /\ log = << >>
    /\ exc = NoExc
    /\ ret = None
    /\ threads = [t \in Threads |-> IdleThread]
    /\ shared_instances = EmptyDict

\* a thread calls DbusInteractions(level), or an accessor of the object it has
ThreadCall ==
    /\ budget > 0
    /\ \E t \in Threads, name \in RaceCalls, dbus_level \in Levels :
          /\ threads[t].pc = "idle"
          /\ IF name = "__init__"
             THEN threads[t].self = 0
             ELSE threads[t].self # 0 /\ dbus_level = threads[t].level
          /\ threads' = [threads EXCEPT ![t] =
                            [@ EXCEPT !.pc = "test", !.name = name, !.level = dbus_level,
                                      !.chain = ChainOf(name), !.ev = << >>]]
          /\ budget' = budget - 1
          /\ UNCHANGED <<dbus_objects, instances, calls, serial, op, inp, log, exc, ret,
                         shared_instances>>

\* if slot not in self.dbus_objects[self.dbus_level]
ThreadTest ==
    \E t \in Threads :
       /\ threads[t].pc = "test"
       /\ IF Head(threads[t].chain) \in DOMAIN dbus_objects[threads[t].level]
          THEN Proceed(t, threads[t], Tail(threads[t].chain), NoExc)
          ELSE /\ threads' = [threads EXCEPT ![t].pc = "create"]
               /\ UNCHANGED <<instances, op, inp, log, exc, ret>>
       /\ UNCHANGED <<dbus_objects, calls, serial, budget, shared_instances>>

\* the thread is about to call a connect function of the library while the
\* process holds no connection of the kind
EntersConnect(th) ==
    /\ Head(th.chain) = "bus"
    /\ th.level \in Levels
    /\ (IF th.level = "system" THEN "SystemBus" ELSE "SessionBus")
         \notin DOMAIN shared_instances

\* self.dbus_objects[self.dbus_level][<receiver>]: the thread looks up the
\* object it will make the create call on; what another thread stores in that
\* slot from now on does not reach the call
ThreadRead ==
    \E t \in Threads :
       /\ threads[t].pc = "create"
       /\ Head(threads[t].chain) # "bus"
       /\ LET m == Subscript(ThreadFrame(threads[t], FALSE), threads[t].level,
                             Receiver(Head(threads[t].chain)))
          IN  IF Raised(m)
              THEN Proceed(t, threads[t], << >>, m.exc)
              ELSE /\ threads' = [threads EXCEPT ![t] = [@ EXCEPT !.pc = "call", !.val = m.val]]
                   /\ UNCHANGED <<instances, op, inp, log, exc, ret>>
       /\ UNCHANGED <<dbus_objects, calls, serial, budget, shared_instances>>

\* the call that creates the object of the slot, on the object looked up; a
\* fault ends the operation
ThreadCreate ==
    \E t \in Threads, fault \in BOOLEAN :
       /\ threads[t].pc = "call"
       /\ LET m == CreateOn(ThreadFrame(threads[t], fault), threads[t].level,
                            Head(threads[t].chain))
          IN  /\ calls' = calls (+) CallBag(<<m.ev[Len(m.ev)]>>)
              /\ serial' = m.serial
              /\ IF Raised(m)
                 THEN Proceed(t, [threads[t] EXCEPT !.ev = m.ev], << >>, m.exc)
                 ELSE /\ threads' = [threads EXCEPT ![t] =
                                        [@ EXCEPT !.pc = "store", !.val = m.val, !.ev = m.ev]]
                      /\ UNCHANGED <<instances, op, inp, log, exc, ret>>
       /\ UNCHANGED <<dbus_objects, budget, shared_instances>>

\* inside the connect function: the test finds a connection of the process and
\* the call returns it; the thread then holds the object another thread holds
ThreadReturnShared ==
    \E t \in Threads :
       /\ threads[t].pc = "create"
       /\ Head(threads[t].chain) = "bus"
       /\ ~EntersConnect(threads[t])
       /\ LET m == BusShared(ThreadFrame(threads[t], FALSE), threads[t].level,
                             IF threads[t].level = "system" THEN "SystemBus"
                             ELSE "SessionBus")
          IN  /\ calls' = calls (+) CallBag(<<m.ev[Len(m.ev)]>>)
              /\ threads' = [threads EXCEPT ![t] =
                                [@ EXCEPT !.pc = "store", !.val = m.val, !.ev = m.ev]]
       /\ UNCHANGED <<dbus_objects, instances, serial, budget, op, inp, log, exc, ret,
                      shared_instances>>

\* inside the connect function: the test for a connection of the process finds none
ThreadTestShared ==
    \E t \in Threads :
       /\ threads[t].pc = "create"
       /\ EntersConnect(threads[t])
       /\ threads' = [threads EXCEPT ![t].pc = "connect"]
       /\ UNCHANGED <<dbus_objects, instances, calls, serial, budget, op, inp, log, exc, ret,
                      shared_instances>>

\* inside the connect function: the connection is made, whatever another thread
\* has kept since the test; a fault ends the operation
ThreadConnect ==
    \E t \in Threads, fault \in BOOLEAN :
       /\ threads[t].pc = "connect"
       /\ LET m == BusConnect(ThreadFrame(threads[t], fault), threads[t].level,
                              IF threads[t].level = "system" THEN "SystemBus"
                              ELSE "SessionBus")
          IN  /\ calls' = calls (+) CallBag(<<m.ev[Len(m.ev)]>>)
              /\ serial' = m.serial
              /\ IF Raised(m)
                 THEN Proceed(t, [threads[t] EXCEPT !.ev = m.ev], << >>, m.exc)
                 ELSE /\ threads' = [threads EXCEPT ![t] =
                                        [@ EXCEPT !.pc = "keep", !.val = m.val, !.ev = m.ev]]
                      /\ UNCHANGED <<instances, op, inp, log, exc, ret>>
       /\ UNCHANGED <<dbus_objects, budget, shared_instances>>

\* inside the connect function: the connection made is kept as the one of the
\* process, in place of one another thread has kept, and returned
ThreadKeep ==
    \E t \in Threads :
       /\ threads[t].pc = "keep"
       /\ shared_instances' =
            Share(ThreadFrame(threads[t], FALSE), threads[t].val.type).shared
       /\ threads' = [threads EXCEPT ![t].pc = "store"]
       /\ UNCHANGED <<dbus_objects, instances, calls, serial, budget, op, inp, log, exc, ret>>

\* self.dbus_objects[self.dbus_level][slot] = <the object created>
ThreadStore ==
    \E t \in Threads :
       /\ threads[t].pc = "store"
       /\ dbus_objects' = Store(ThreadFrame(threads[t], FALSE), threads[t].level,
                                Head(threads[t].chain), threads[t].val).objs
       /\ Proceed(t, threads[t], Tail(threads[t].chain), NoExc)
       /\ UNCHANGED <<calls, serial, budget, shared_instances>>

NextRace ==
    \/ ThreadCall
    \/ ThreadTest
    \/ ThreadRead
    \/ ThreadCreate
    \/ ThreadReturnShared
    \/ ThreadTestShared
    \/ ThreadConnect
    \/ ThreadKeep
    \/ ThreadStore

SpecRace == InitRace /\ [][NextRace]_vars

----------------------------------------------------------------------------
(* Properties *)

\* how often a library call has been made with a given outcome
Count(level, name, a, b, out) == CopiesIn(<<level, name, a, b, out>>, calls)

\* the connect function of a level
Connect(level) == IF level = "system" THEN "SystemBus" ELSE "SessionBus"

OtherLevel(level) == IF level = "system" THEN "session" ELSE "system"

\* no library call of the run so far has raised
NoFault(bag) == \A k \in BagToSet(bag) : k[5] = "ok"

\* C1: the connect operation of a level completes exactly once, in the first
\* successful construction for the level: it has completed once if a
\* connection is cached and never otherwise, the connect function of the
\* other level is never called for it, connect is called only by a
\* construction that finds no connection cached, and a construction that finds
\* one succeeds without any library call and leaves the cache as it was.
C1_ConnectOnce ==
    /\ [](\A l \in Levels :
            /\ Count(l, Connect(l), "", "", "ok")
                 = (IF "bus" \in DOMAIN dbus_objects[l] THEN 1 ELSE 0)
            /\ Count(l, Connect(OtherLevel(l)), "", "", "ok") = 0
            /\ Count(l, Connect(OtherLevel(l)), "", "", "raised") = 0
            /\ (\E i \in DOMAIN instances : instances[i] = l)
                 => "bus" \in DOMAIN dbus_objects[l])
    /\ [][\A l \in Levels :
            /\ (op'.name = "__init__" /\ op'.level = l /\ "bus" \in DOMAIN dbus_objects[l])
                 => /\ exc' = NoExc
                    /\ log' = << >>
                    /\ calls' = calls
                    /\ dbus_objects' = dbus_objects
                    /\ instances' = Append(instances, l)
            /\ (\E out \in {"ok", "raised"} :
                    CopiesIn(<<l, Connect(l), "", "", out>>, calls')
                      # CopiesIn(<<l, Connect(l), "", "", out>>, calls))
                 => /\ op'.name = "__init__" /\ op'.level = l
                    /\ "bus" \notin DOMAIN dbus_objects[l]
                    /\ Len(log') = 1
            /\ (NoFault(calls') /\ "bus" \in DOMAIN dbus_objects'[l])
                 => CopiesIn(<<l, Connect(l), "", "", "ok">>, calls') = 1
       ]_vars

\* a second construction for a level has just succeeded on the cached connection
C1_Witness ==
    /\ op.name = "__init__" /\ op.level = "session"
    /\ instances = <<"session", "session">>
    /\ exc = NoExc /\ log = << >>
    /\ Count("session", "SessionBus", "", "", "ok") = 1

\* C2: construction with a level that is neither "system" nor "session" ends
\* with ValueError, makes no library call, creates no instance and leaves the
\* cache of both levels as it was.
C2_InvalidLevel ==
    [][(op'.name = "__init__" /\ op'.level \notin {"system", "session"})
         => /\ exc'.type = "ValueError"
            /\ log' = << >>
            /\ calls' = calls
            /\ serial' = serial
            /\ dbus_objects' = dbus_objects
            /\ instances' = instances
      ]_vars

\* a construction with an invalid level has failed on a cache that holds something
C2_Witness ==
    /\ op.name = "__init__" /\ op.level = "user"
    /\ exc.type = "ValueError"
    /\ "systemd" \in DOMAIN dbus_objects["system"]

\* for each accessor without arguments, the slot it fills and the call that creates it
SlotOf(name) ==
    CASE name = "add_systemd" -> "systemd"
      [] name = "add_systemd_manager" -> "systemd_manager"
      [] name = "add_systemd_properties" -> "systemd_properties"
      [] name = "add_dbus" -> "dbus"
      [] name = "add_dbus_interface" -> "dbus_interface"

CreateOf(level, name) ==
    CASE name = "add_systemd" -> <<level, "get_object", SystemdService, SystemdPath, "ok">>
      [] name = "add_systemd_manager" -> <<level, "Interface", SystemdPath, ManagerIface, "ok">>
      [] name = "add_systemd_properties" -> <<level, "Interface", SystemdPath, PropertiesIface, "ok">>
      [] name = "add_dbus" -> <<level, "get_object", DBusService, DBusPath, "ok">>
      [] name = "add_dbus_interface" -> <<level, "Interface", DBusPath, DBusIface, "ok">>

\* C3: in a run where no library call raises, after any call of an accessor
\* its slot is filled and the call that creates the slot's object has been made
\* exactly once; a call that finds the slot filled makes no library call and
\* leaves the cache unchanged.
C3_AccessorIdempotent ==
    [][(op'.name \in Accessors /\ NoFault(calls'))
         => /\ exc' = NoExc
            /\ SlotOf(op'.name) \in DOMAIN dbus_objects'[op'.level]
            /\ CopiesIn(CreateOf(op'.level, op'.name), calls') = 1
            /\ (SlotOf(op'.name) \in DOMAIN dbus_objects[op'.level]
                  => /\ log' = << >>
                     /\ calls' = calls
                     /\ dbus_objects' = dbus_objects)
      ]_vars

\* an accessor has been called a second time, after the call that filled its slot
C3_Witness ==
    /\ op.name = "add_systemd_manager"
    /\ NoFault(calls)
    /\ log = << >>
    /\ Count(op.level, "Interface", SystemdPath, ManagerIface, "ok") = 1
    /\ Count(op.level, "get_object", SystemdService, SystemdPath, "ok") = 1

\* the per-unit wrappers cached for a level
Units(objs, level) ==
    IF "unit_properties" \in DOMAIN objs[level]
    THEN objs[level]["unit_properties"]
    ELSE EmptyDict

\* C4 (as claimed): a call of add_systemd_unit_properties for a unit id whose
\* wrapper is cached makes no library call (no GetUnit, no get_object), creates
\* no object and leaves the cache unchanged.
C4_UnitAccessorNoOp ==
    [][(op'.name = "add_systemd_unit_properties"
          /\ op'.unit \in DOMAIN Units(dbus_objects, op'.level))
         => /\ log' = << >>
            /\ calls' = calls
            /\ serial' = serial
            /\ dbus_objects' = dbus_objects
      ]_vars

\* the calls of add_systemd_unit_properties(unit_id) on a cache that holds only
\* the connection, GetUnit replying unit_path: <<function, a, b>>
UnitChain(unit_id, unit_path) ==
    << <<"get_object", SystemdService, SystemdPath>>,
       <<"Interface", SystemdPath, ManagerIface>>,
       <<"GetUnit", unit_id, "">>,
       <<"get_object", SystemdService, unit_path>>,
       <<"Interface", unit_path, PropertiesIface>> >>

\* C5: add_systemd_unit_properties(unitId) on a cache that holds only the
\* connection makes its library calls in this order: get_object for the
\* systemd root path, Interface for the manager, GetUnit(unitId) on that
\* manager wrapper, get_object for the path replied, Interface for the unit's
\* properties; a call that raises ends the sequence, and nothing else ends it
\* early.  GetUnit is made only once the manager wrapper is cached.
C5_UnitAccessorOrder ==
    [][(op'.name = "add_systemd_unit_properties"
          /\ DOMAIN dbus_objects[op'.level] = {"bus"})
         => LET want == UnitChain(op'.unit, inp')
                l == op'.level
            IN  /\ Len(log') \in 1..5
                /\ \A i \in 1..Len(log') :
                      /\ <<log'[i].op, log'[i].a, log'[i].b>> = want[i]
                      /\ log'[i].out = "raised" => i = Len(log')
                /\ log'[Len(log')].out = "ok" => (Len(log') = 5 /\ exc' = NoExc)
                /\ log'[Len(log')].out = "raised" => exc' = DBusException(Len(log'))
                /\ Len(log') >= 3
                     => /\ "systemd" \in DOMAIN dbus_objects'[l]
                        /\ "systemd_manager" \in DOMAIN dbus_objects'[l]
                        /\ log'[1].on = dbus_objects'[l]["bus"].id
                        /\ log'[2].on = dbus_objects'[l]["systemd"].id
                        /\ log'[3].on = dbus_objects'[l]["systemd_manager"].id
                /\ Len(log') = 5
                     => /\ log'[4].on = dbus_objects'[l]["bus"].id
                        /\ log'[5].on = serial + 3
      ]_vars

\* the accessor has run its whole chain from a cache that held only the connection
C5_Witness ==
    /\ op.name = "add_systemd_unit_properties"
    /\ exc = NoExc
    /\ Len(log) = 5
    /\ log[3].op = "GetUnit"
    /\ op.unit \in DOMAIN Units(dbus_objects, op.level)

\* C6: within a level the wrappers cached for different unit ids are different
\* objects; a wrapper once cached for a unit id stays the one cached for it; a
\* per-unit access that succeeds leaves a wrapper cached for its unit id,
\* creates none when one was cached, and get_unit_property calls Get on the
\* cached wrapper.
C6_UnitWrappers ==
    /\ [](\A l \in Levels :
            LET units == Units(dbus_objects, l)
            IN  /\ DOMAIN units \subseteq UnitIds
                /\ \A u \in DOMAIN units :
                      /\ units[u].type = "Interface"
                      /\ units[u].iface = PropertiesIface
                      /\ units[u].id \in 1..serial
                /\ \A u, v \in DOMAIN units : u # v => units[u].id # units[v].id)
    /\ [][/\ \A l \in Levels : \A u \in DOMAIN Units(dbus_objects, l) :
                /\ u \in DOMAIN Units(dbus_objects', l)
                /\ Units(dbus_objects', l)[u] = Units(dbus_objects, l)[u]
          /\ (op'.name \in {"add_systemd_unit_properties", "get_unit_property"}
                /\ exc' = NoExc)
               => /\ op'.unit \in DOMAIN Units(dbus_objects', op'.level)
                  /\ op'.unit \in DOMAIN Units(dbus_objects, op'.level)
                       => \A i \in 1..Len(log') : log'[i].op # "Interface"
                  /\ op'.name = "get_unit_property"
                       => /\ log'[Len(log')].op = "Get"
                          /\ log'[Len(log')].on
                               = Units(dbus_objects', op'.level)[op'.unit].id
       ]_vars

\* a second access for a unit id has called Get on the wrapper of the first,
\* not on an object made since
C6_Witness ==
    /\ op.name = "get_unit_property"
    /\ exc = NoExc
    /\ Count(op.level, "GetUnit", op.unit, "", "ok") = 2
    /\ log[Len(log)].on = Units(dbus_objects, op.level)[op.unit].id
    /\ log[Len(log)].on < serial

\* C7: when GetUnit raises in get_unit_property(unitId, prop), the operation
\* ends with that fault and returns nothing; GetUnit(unitId) is the last call
\* and the only GetUnit of the operation, Get is not called, and the per-unit
\* wrappers of the level are as before.
C7_GetUnitFault ==
    [][(op'.name = "get_unit_property"
          /\ \E i \in 1..Len(log') : log'[i].op = "GetUnit" /\ log'[i].out = "raised")
         => /\ log'[Len(log')].op = "GetUnit"
            /\ log'[Len(log')].out = "raised"
            /\ log'[Len(log')].a = op'.unit
            /\ exc' = DBusException(Len(log'))
            /\ ret' = None
            /\ Cardinality({i \in 1..Len(log') : log'[i].op = "GetUnit"}) = 1
            /\ \A i \in 1..Len(log') : log'[i].op # "Get"
            /\ Units(dbus_objects', op'.level) = Units(dbus_objects, op'.level)
            /\ ("unit_properties" \in DOMAIN dbus_objects'[op'.level])
                 = ("unit_properties" \in DOMAIN dbus_objects[op'.level])
      ]_vars

\* get_unit_property has ended with the fault of its GetUnit call
C7_Witness ==
    /\ op.name = "get_unit_property"
    /\ exc.type = "DBusException"
    /\ Len(log) = 3
    /\ log[exc.at].op = "GetUnit"
    /\ log[exc.at].out = "raised"
    /\ op.unit \notin DOMAIN Units(dbus_objects, op.level)

\* C8: a slot of the cache, once filled, stays filled with the same object in
\* every later state, whatever operation runs and however it ends; the same
\* holds for every unit id of unit_properties.
C8_NeverRemoved ==
    [][\A l \in Levels : \A k \in DOMAIN dbus_objects[l] :
          /\ k \in DOMAIN dbus_objects'[l]
          /\ IF k = "unit_properties"
             THEN \A u \in DOMAIN dbus_objects[l][k] :
                     /\ u \in DOMAIN dbus_objects'[l][k]
                     /\ dbus_objects'[l][k][u] = dbus_objects[l][k][u]
             ELSE dbus_objects'[l][k] = dbus_objects[l][k]
      ]_vars

\* an operation has ended in a remote fault on a cache that holds a manager
\* wrapper and a per-unit wrapper
C8_Witness ==
    /\ exc.type = "DBusException"
    /\ \E l \in Levels :
          /\ op.level = l
          /\ {"bus", "systemd", "systemd_manager", "unit_properties"} \subseteq DOMAIN dbus_objects[l]
          /\ Units(dbus_objects, l) # EmptyDict

\* the characters of a text
Range(t) == {t[i] : i \in 1..Len(t)}

\* entry starts with name followed by "=", and name holds no "="
IsNameOf(name, entry) ==
    /\ "=" \notin Range(name)
    /\ Len(entry) > Len(name)
    /\ SubSeq(entry, 1, Len(name)) = name
    /\ entry[Len(name) + 1] = "="

\* the library calls of the last operation all returned
AllReturned == \A i \in 1..Len(log) : log[i].out = "ok"

\* C9: when the Environment reply is a sequence of entries that each hold a
\* "=", get_systemd_vars returns the mapping whose names are the texts before
\* the first "=" of the entries, each name mapped to what follows that first
\* "=" in the last entry with the name (name, "=" and value put together give
\* that entry back).
C9_GetSystemdVars ==
    (op.name = "get_systemd_vars" /\ AllReturned
       /\ \A i \in 1..Len(inp) : "=" \in Range(inp[i]))
      => /\ exc = NoExc
         /\ Len(log) > 0
         /\ log[Len(log)].op = "Get"
         /\ log[Len(log)].a = ManagerIface
         /\ log[Len(log)].b = "Environment"
         /\ \A name \in DOMAIN ret : \E i \in 1..Len(inp) : IsNameOf(name, inp[i])
         /\ \A i \in 1..Len(inp) :
               \E name \in DOMAIN ret :
                  /\ IsNameOf(name, inp[i])
                  /\ (\A j \in (i + 1)..Len(inp) : ~IsNameOf(name, inp[j]))
                       => name \o <<"=">> \o ret[name] = inp[i]

\* ["A=A", "A=="] has given {A: "="}: the later entry wins, and its value is
\* all that follows the first "="
C9_Witness ==
    /\ op.name = "get_systemd_vars"
    /\ inp = << <<"A", "=", "A">>, <<"A", "=", "=">> >>
    /\ exc = NoExc
    /\ DOMAIN ret = {<<"A">>}
    /\ ret[<<"A">>] = <<"=">>

\* C10: set_systemd_vars(varsMap) whose ensure chain does not raise makes
\* exactly one SetEnvironment call, its last call, on the manager wrapper, with
\* the list of the texts name "=" value of the entries of varsMap in their
\* iteration order; no run of it makes more than one SetEnvironment call.
C10_SetSystemdVars ==
    op.name = "set_systemd_vars"
      => /\ Cardinality({i \in 1..Len(log) : log[i].op = "SetEnvironment"}) <= 1
         /\ (\A i \in 1..Len(log) : log[i].out = "raised" => log[i].op = "SetEnvironment")
              => /\ Len(log) > 0
                 /\ Cardinality({i \in 1..Len(log) : log[i].op = "SetEnvironment"}) = 1
                 /\ LET call == log[Len(log)]
                    IN  /\ call.op = "SetEnvironment"
                        /\ call.on = dbus_objects[op.level]["systemd_manager"].id
                        /\ Len(call.data) = Len(inp)
                        /\ \A i \in 1..Len(inp) :
                              call.data[i] = inp[i][1] \o <<"=">> \o inp[i][2]
                 /\ AllReturned => (exc = NoExc /\ ret = None)

\* {"B": "A", "A": "="} has been sent as ["B=A", "A=="]
C10_Witness ==
    /\ op.name = "set_systemd_vars"
    /\ inp = << <<<<"B">>, <<"A">>>>, <<<<"A">>, <<"=">>>> >>
    /\ exc = NoExc
    /\ log[Len(log)].op = "SetEnvironment"
    /\ log[Len(log)].data = << <<"B", "=", "A">>, <<"A", "=", "=">> >>

\* C11: stop_unit(unit) called without a job mode makes the remote call
\* StopUnit(unit, "fail"), called with a job mode it makes StopUnit(unit, mode);
\* no run makes more than one StopUnit call; when the ensure chain does not
\* raise exactly one is made, the last call, on the manager wrapper, and what it
\* replies is returned (its fault is the fault the operation ends with).
C11_StopUnit ==
    [][op'.name = "stop_unit"
         => /\ Cardinality({i \in 1..Len(log') : log'[i].op = "StopUnit"}) <= 1
            /\ (\A i \in 1..Len(log') : log'[i].out = "raised" => log'[i].op = "StopUnit")
                 => /\ Len(log') > 0
                    /\ Cardinality({i \in 1..Len(log') : log'[i].op = "StopUnit"}) = 1
                    /\ LET call == log'[Len(log')]
                       IN  /\ call.op = "StopUnit"
                           /\ call.on = dbus_objects'[op'.level]["systemd_manager"].id
                           /\ call.a = op'.unit
                           /\ call.b = (IF op'.arg = None THEN "fail" ELSE op'.arg)
                           /\ call.out = "ok" => (exc' = NoExc /\ ret' = inp')
                           /\ call.out = "raised"
                                => (exc' = DBusException(Len(log')) /\ ret' = None)
      ]_vars

\* stop_unit without a job mode has sent StopUnit(unit, "fail") and returned
\* the job the manager replied
C11_Witness ==
    /\ op.name = "stop_unit" /\ op.arg = None
    /\ exc = NoExc
    /\ log[Len(log)].op = "StopUnit"
    /\ log[Len(log)].a = op.unit
    /\ log[Len(log)].b = "fail"
    /\ ret = "/org/freedesktop/systemd1/job/2"

\* the slot a slot is built on
PrerequisiteOf(slot) ==
    CASE slot = "systemd" -> "bus"
      [] slot = "dbus" -> "bus"
      [] slot = "systemd_manager" -> "systemd"
      [] slot = "systemd_properties" -> "systemd"
      [] slot = "dbus_interface" -> "dbus"
      [] slot = "unit_properties" -> "systemd_manager"

\* C12: in every reachable state, for each level, a filled slot has its
\* prerequisite filled: systemd and dbus need bus, systemd_manager and
\* systemd_properties need systemd, dbus_interface needs dbus, unit_properties
\* (with or without unit ids in it) needs systemd_manager; and the object of a
\* slot is the one made from the cached object of its prerequisite.  Operations
\* that a fault interrupts are among the steps.
C12_Dependencies ==
    \A l \in Levels :
       /\ DOMAIN dbus_objects[l] \subseteq
             {"bus", "systemd", "systemd_manager", "systemd_properties",
              "unit_properties", "dbus", "dbus_interface"}
       /\ \A slot \in DOMAIN dbus_objects[l] \ {"bus"} :
             /\ PrerequisiteOf(slot) \in DOMAIN dbus_objects[l]
             /\ slot # "unit_properties"
                  => dbus_objects[l][slot].parent = dbus_objects[l][PrerequisiteOf(slot)].id

\* a fault has interrupted the ensure chain of the per-unit accessor after the
\* systemd object was stored and before the manager wrapper was
C12_Witness ==
    /\ op.name = "add_systemd_unit_properties"
    /\ exc.type = "DBusException" /\ exc.at = 2
    /\ DOMAIN dbus_objects[op.level] = {"bus", "systemd"}

\* the call that creates the object of a slot, as it is counted
CreateCall(level, slot, out) ==
    CASE slot = "bus" -> <<level, Connect(level), "", "", out>>
      [] slot = "systemd" -> <<level, "get_object", SystemdService, SystemdPath, out>>
      [] slot = "systemd_manager" -> <<level, "Interface", SystemdPath, ManagerIface, out>>
      [] slot = "systemd_properties" -> <<level, "Interface", SystemdPath, PropertiesIface, out>>
      [] slot = "dbus" -> <<level, "get_object", DBusService, DBusPath, out>>
      [] slot = "dbus_interface" -> <<level, "Interface", DBusPath, DBusIface, out>>

\* C13: with two threads and no lock, the membership test, the look-up of the
\* object the create call is made on, the create call and the store of a slot
\* are separate steps.  A thread that has passed the test makes the create
\* call, on the object it has looked up, whatever the other thread has stored
\* since, and its
\* store puts its own object into the slot; when the slot was filled in the
\* meantime the create call of the slot has returned twice and the store
\* replaces what the other thread stored: by a different object for every slot
\* but the connection; for the connection by a different one when the thread
\* connected for itself, and by the same when the library handed it the
\* connection the other thread had made.  No create call of a slot returns more
\* often than there are threads.
C13_Race ==
    /\ [](\A l \in Levels : \A s \in {"bus"} \cup {SlotOf(a) : a \in Accessors} :
            CopiesIn(CreateCall(l, s, "ok"), calls) <= Cardinality(Threads))
    /\ [][\A t \in Threads :
            LET th == threads[t]
                l == th.level
                s == Head(th.chain)
            IN  /\ (th.pc = "test" /\ threads'[t].pc = "create")
                     => s \notin DOMAIN dbus_objects[l]
                /\ (th.pc = "create" /\ threads'[t].pc # th.pc)
                     => \/ threads'[t].pc = "connect" /\ calls' = calls /\ s = "bus"
                        \/ /\ threads'[t].pc = "call" /\ calls' = calls /\ s # "bus"
                           /\ threads'[t].val = dbus_objects[l][Receiver(s)]
                        \/ /\ threads'[t].pc = "store" /\ s = "bus" /\ serial' = serial
                           /\ calls' = calls (+) SetToBag({CreateCall(l, s, "ok")})
                           /\ threads'[t].val = shared_instances[Connect(l)]
                /\ (th.pc = "call" /\ threads'[t].pc # th.pc)
                     => \E out \in {"ok", "raised"} :
                           /\ calls' = calls (+) SetToBag({CreateCall(l, s, out)})
                           /\ out = "ok" => /\ threads'[t].pc = "store"
                                            /\ serial' = serial + 1
                                            /\ threads'[t].val.id = serial'
                                            /\ threads'[t].val.parent = th.val.id
                /\ (th.pc = "connect" /\ threads'[t].pc # th.pc)
                     => \E out \in {"ok", "raised"} :
                           /\ calls' = calls (+) SetToBag({CreateCall(l, "bus", out)})
                           /\ out = "ok" => (threads'[t].pc = "keep" /\ serial' = serial + 1)
                /\ (th.pc = "keep" /\ threads'[t].pc # th.pc)
                     => (threads'[t].pc = "store" /\ threads'[t].val = th.val)
                /\ (th.pc = "store" /\ threads'[t].pc # th.pc)
                     => /\ dbus_objects'[l][s] = th.val
                        /\ s \in DOMAIN dbus_objects[l]
                             => /\ CopiesIn(CreateCall(l, s, "ok"), calls) = 2
                                /\ s # "bus" => dbus_objects[l][s].id # th.val.id
                                /\ s = "bus"
                                     => /\ dbus_objects[l][s].type = th.val.type
                                        /\ (dbus_objects[l][s].id = th.val.id)
                                             = (dbus_objects[l][s] = th.val)
       ]_vars

\* both threads have run add_systemd on the same level to its end: get_object
\* has returned twice, t1 stored its object first, and the slot now holds the
\* object of t2, which returned last
C13_Witness ==
    /\ threads["t1"].name = "add_systemd" /\ threads["t1"].pc = "idle"
    /\ threads["t2"].name = "add_systemd" /\ threads["t2"].pc = "idle"
    /\ threads["t1"].level = threads["t2"].level
    /\ op.name = "add_systemd" /\ op.arg = "t2" /\ exc = NoExc
    /\ Count(op.level, "get_object", SystemdService, SystemdPath, "ok") = 2
    /\ threads["t1"].val.path = SystemdPath
    /\ threads["t2"].val.path = SystemdPath
    /\ threads["t1"].val.id # threads["t2"].val.id
    /\ dbus_objects[op.level]["systemd"] = threads["t2"].val

\* the slots that hold one object
Slots ==
    {"bus", "systemd", "systemd_manager", "systemd_properties", "dbus", "dbus_interface"}

\* C14: the cache of a level is one for all objects of the level.  However many
\* objects there are, the create call of a slot has returned once if the slot
\* is filled and never otherwise; an operation run through any object of the
\* level (a construction included) on a cache where a slot is filled, by
\* whichever object, leaves the same object in the slot and does not make the
\* slot's create call; the calls it makes on the connection are made on the
\* cached one.
C14_SharedCache ==
    /\ [](\A l \in Levels : \A s \in Slots :
            CopiesIn(CreateCall(l, s, "ok"), calls)
              = (IF s \in DOMAIN dbus_objects[l] THEN 1 ELSE 0))
    /\ [][\A l \in Levels : op'.level = l =>
            /\ op'.name # "__init__" => op'.self \in DOMAIN instances
            /\ \A s \in Slots \cap DOMAIN dbus_objects[l] :
                  /\ dbus_objects'[l][s] = dbus_objects[l][s]
                  /\ \A i \in 1..Len(log') :
                        /\ CallKey(log'[i]) # CreateCall(l, s, "ok")
                        /\ CallKey(log'[i]) # CreateCall(l, s, "raised")
            /\ \A i \in 1..Len(log') :
                  log'[i].op = "get_object" => log'[i].on = dbus_objects[l]["bus"].id
       ]_vars

\* the first operation of the second object of a level, constructed after the
\* first object had filled the manager slot, has been reload_systemd: it has
\* made no call but Reload, on the wrapper the first object created, over the
\* connection the first object made
C14_Witness ==
    /\ instances = <<"system", "system">>
    /\ budget = 0
    /\ op.name = "reload_systemd" /\ op.self = 2
    /\ exc = NoExc
    /\ Len(log) = 1
    /\ log[1].on = dbus_objects["system"]["systemd_manager"].id
    /\ Count("system", "SystemBus", "", "", "ok") = 1
    /\ Count("system", "get_object", SystemdService, SystemdPath, "ok") = 1
    /\ Count("system", "Interface", SystemdPath, ManagerIface, "ok") = 1

\* C15: when the Environment reply received by get_systemd_vars holds an entry
\* without "=", the operation ends with the ValueError of the unpacking and
\* returns no mapping, whatever the entries before and after it are.
C15_MalformedEntry ==
    (/\ op.name = "get_systemd_vars"
     /\ Len(log) > 0
     /\ log[Len(log)].op = "Get" /\ log[Len(log)].out = "ok"
     /\ \E i \in 1..Len(inp) : "=" \notin Range(inp[i]))
      => /\ exc.type = "ValueError"
         /\ ret = None

\* ["A=A", "A"] has ended get_systemd_vars with ValueError: {A: "A"} is not returned
C15_Witness ==
    /\ op.name = "get_systemd_vars"
    /\ inp = << <<"A", "=", "A">>, <<"A">> >>
    /\ log[Len(log)].op = "Get" /\ log[Len(log)].out = "ok"
    /\ exc.type = "ValueError"
    /\ ret = None

\* the public operations
Operations ==
    {"get_unit_property", "reload_systemd", "list_systemd_jobs", "set_dbus_vars",
     "set_systemd_vars", "unset_systemd_vars", "get_systemd_vars",
     "list_units_by_patterns", "stop_unit"}

\* the slots of the ensure chain of a public operation
EnsuredBy(name) ==
    CASE name = "get_unit_property" -> {"systemd", "systemd_manager", "unit_properties"}
      [] name = "get_systemd_vars" -> {"systemd", "systemd_properties"}
      [] name = "set_dbus_vars" -> {"dbus", "dbus_interface"}
      [] OTHER -> {"systemd", "systemd_manager"}

\* C16: a public operation started on a cache of its level that holds only the
\* connection never ends with a missing-key failure and fills no slot outside
\* its ensure chain; when none of its calls raises the cache holds exactly the
\* connection, unchanged, and the slots of the chain: systemd and
\* systemd_manager for reload_systemd, list_systemd_jobs, set_systemd_vars,
\* unset_systemd_vars, list_units_by_patterns and stop_unit; systemd and
\* systemd_properties for get_systemd_vars; dbus and dbus_interface for
\* set_dbus_vars; systemd, systemd_manager and unit_properties with the one unit
\* id u for get_unit_property(u, p).
C16_OperationFrame ==
    [][(op'.name \in Operations /\ DOMAIN dbus_objects[op'.level] = {"bus"})
         => LET l == op'.level
            IN  /\ exc'.type # "KeyError"
                /\ DOMAIN dbus_objects'[l] \subseteq {"bus"} \cup EnsuredBy(op'.name)
                /\ dbus_objects'[l]["bus"] = dbus_objects[l]["bus"]
                /\ (\A i \in 1..Len(log') : log'[i].out = "ok")
                     => /\ DOMAIN dbus_objects'[l] = {"bus"} \cup EnsuredBy(op'.name)
                        /\ op'.name = "get_unit_property"
                             => DOMAIN Units(dbus_objects', l) = {op'.unit}
                        /\ op'.name # "get_systemd_vars" => exc' = NoExc
      ]_vars

\* get_systemd_vars has run without a fault on a cache that held only the
\* connection: it has left systemd and systemd_properties, and no manager wrapper
C16_Witness ==
    /\ op.name = "get_systemd_vars"
    /\ exc = NoExc
    /\ Len(log) = 3
    /\ log[1].op = "get_object" /\ log[2].op = "Interface" /\ log[3].op = "Get"
    /\ DOMAIN dbus_objects[op.level] = {"bus", "systemd", "systemd_properties"}

\* the identities of the objects cached for a level
IdsOf(objs, level) ==
    {objs[level][s].id : s \in Slots \cap DOMAIN objs[level]}
      \cup {Units(objs, level)[u].id : u \in DOMAIN Units(objs, level)}

\* C17: a construction, accessor call or public operation for level L, however
\* it ends, leaves the cache of the other level exactly as it was, does not call
\* the connect function of the other level, makes no call on an object cached
\* for the other level, and every call it makes is counted for L.
C17_LevelIsolation ==
    [][\A l \in Levels : op'.level = l
         => /\ dbus_objects'[OtherLevel(l)] = dbus_objects[OtherLevel(l)]
            /\ \A i \in 1..Len(log') :
                  /\ log'[i].op # Connect(OtherLevel(l))
                  /\ log'[i].level = l
                  /\ log'[i].on \notin IdsOf(dbus_objects, OtherLevel(l))
            /\ \A k \in BagToSet(calls') :
                  k[1] = OtherLevel(l) => CopiesIn(k, calls') = CopiesIn(k, calls)
      ]_vars

\* with a connection cached for both levels, an accessor of the session level
\* has filled its slots: the cache of the system level still holds only the
\* connection, and get_object was called on the session connection
C17_Witness ==
    /\ instances = <<"system", "session">>
    /\ op.name = "add_systemd_manager" /\ op.level = "session"
    /\ exc = NoExc
    /\ DOMAIN dbus_objects["system"] = {"bus"}
    /\ DOMAIN dbus_objects["session"] = {"bus", "systemd", "systemd_manager"}
    /\ log[1].on = dbus_objects["session"]["bus"].id
    /\ dbus_objects["session"]["bus"].id # dbus_objects["system"]["bus"].id

\* the positions in a log of the calls that create the object of a slot
Attempts(ev, level, slot) ==
    {i \in 1..Len(ev) :
        CallKey(ev[i]) \in {CreateCall(level, slot, "ok"), CreateCall(level, slot, "raised")}}

\* C18: a fault of the call that creates the object of an accessor's slot is
\* not cached.  An accessor called while its slot is empty makes the create
\* call of the slot (unless a call for a prerequisite raises before); if the
\* create call raises the accessor ends with that fault, the slot stays empty
\* and the prerequisite filled before it stays filled; if it returns the slot
\* is filled.  So the call after a faulted one attempts the creation again.
\* The same for add_systemd_unit_properties(u) while u has no wrapper: a fault
\* of GetUnit, of get_object or of Interface leaves u without wrapper and the
\* manager wrapper cached, and a call made with the manager wrapper cached
\* starts with GetUnit(u) again.
C18_FaultNotCached ==
    [][LET l == op'.level
           last == log'[Len(log')]
       IN  /\ (op'.name \in Accessors /\ SlotOf(op'.name) \notin DOMAIN dbus_objects[l])
                => LET s == SlotOf(op'.name)
                       attempts == Attempts(log', l, s)
                   IN  /\ Len(log') > 0
                       /\ attempts \in {{}, {Len(log')}}
                       /\ attempts = {} => last.out = "raised"
                       /\ last.out = "ok" => (exc' = NoExc /\ s \in DOMAIN dbus_objects'[l])
                       /\ last.out = "raised"
                            => /\ exc' = DBusException(Len(log'))
                               /\ s \notin DOMAIN dbus_objects'[l]
                               /\ attempts # {}
                                    => PrerequisiteOf(s) \in DOMAIN dbus_objects'[l]
           /\ (op'.name = "add_systemd_unit_properties"
                 /\ op'.unit \notin DOMAIN Units(dbus_objects, l))
                => /\ Len(log') > 0
                   /\ last.out = "ok"
                        => (exc' = NoExc /\ op'.unit \in DOMAIN Units(dbus_objects', l))
                   /\ last.out = "raised"
                        => /\ exc' = DBusException(Len(log'))
                           /\ op'.unit \notin DOMAIN Units(dbus_objects', l)
                           /\ (last.op = "GetUnit" \/ last.a = inp' \/ last.b = inp')
                                => "systemd_manager" \in DOMAIN dbus_objects'[l]
                   /\ "systemd_manager" \in DOMAIN dbus_objects[l]
                        => /\ log'[1].op = "GetUnit" /\ log'[1].a = op'.unit
                           /\ log'[1].out = "ok"
                                => (log'[2].op = "get_object" /\ log'[2].b = inp')
      ]_vars

\* add_systemd_manager has been called again after the call in which Interface
\* raised: it has found systemd cached, has called Interface again and has
\* filled its slot
C18_Witness ==
    /\ op.name = "add_systemd_manager"
    /\ exc = NoExc
    /\ Len(log) = 1 /\ log[1].op = "Interface" /\ log[1].out = "ok"
    /\ Count(op.level, "Interface", SystemdPath, ManagerIface, "raised") = 1
    /\ Count(op.level, "Interface", SystemdPath, ManagerIface, "ok") = 1
    /\ Count(op.level, "get_object", SystemdService, SystemdPath, "ok") = 1
    /\ "systemd_manager" \in DOMAIN dbus_objects[op.level]

\* C19: get_unit_property(u, p) for a unit id whose wrapper is cached starts
\* with GetUnit(u) on the manager wrapper and, when that returns, get_object on
\* the connection for the path replied, on every call.  When either raises the
\* operation ends with the fault and Get is not called, although a wrapper is
\* cached.  When both return, Get(p) is called on the wrapper that was cached,
\* whether or not the path replied is the path the wrapper was made for; no
\* wrapper is created, and the cache is left as it was in every case.
C19_LookupOnEveryCall ==
    [][(op'.name = "get_unit_property"
          /\ op'.unit \in DOMAIN Units(dbus_objects, op'.level))
         => LET l == op'.level
                wrapper == Units(dbus_objects, l)[op'.unit]
            IN  /\ dbus_objects' = dbus_objects
                /\ Len(log') \in 1..3
                /\ \A i \in 1..Len(log') : log'[i].op # "Interface"
                /\ log'[1].op = "GetUnit"
                /\ log'[1].a = op'.unit
                /\ log'[1].on = dbus_objects[l]["systemd_manager"].id
                /\ log'[1].out = "raised"
                     => (Len(log') = 1 /\ exc' = DBusException(1) /\ ret' = None)
                /\ log'[1].out = "ok"
                     => /\ Len(log') >= 2
                        /\ log'[2].op = "get_object"
                        /\ log'[2].on = dbus_objects[l]["bus"].id
                        /\ log'[2].a = SystemdService /\ log'[2].b = inp'
                        /\ log'[2].out = "raised"
                             => (Len(log') = 2 /\ exc' = DBusException(2) /\ ret' = None)
                        /\ log'[2].out = "ok"
                             => /\ Len(log') = 3
                                /\ serial' = serial + 1
                                /\ log'[3].op = "Get"
                                /\ log'[3].a = UnitIface /\ log'[3].b = op'.arg
                                /\ log'[3].on = wrapper.id
                                /\ log'[3].on # serial'
                                /\ log'[3].out = "ok" => (exc' = NoExc /\ ret' = "reply")
      ]_vars

\* GetUnit has replied another path than the one the cached wrapper of the unit
\* was made for, and Get has been called on the cached wrapper
C19_Witness ==
    /\ op.name = "get_unit_property"
    /\ exc = NoExc
    /\ Len(log) = 3
    /\ log[1].op = "GetUnit" /\ log[2].op = "get_object" /\ log[3].op = "Get"
    /\ log[2].b = inp
    /\ Units(dbus_objects, op.level)[op.unit].path # inp
    /\ log[3].on = Units(dbus_objects, op.level)[op.unit].id

====
